---- MODULE Spec2Model ----
(***************************************************************************)
(* Model of the equal-weighted top-100 index pipeline:                     *)
(*   src/compute_index100.py  (ComputeIndex100, one run per date)          *)
(*   src/database.py          (MarketDataConn, four SQLite tables)         *)
(*                                                                         *)
(* All numeric columns are REAL and all arithmetic is done on Python       *)
(* floats, so numbers are modelled as binary floating point values with a  *)
(* MantBits-bit significand and round-to-nearest-even (IEEE 754 with a     *)
(* narrower significand).                                                  *)
(***************************************************************************)
EXTENDS Integers, Sequences, FiniteSets, TLC

\* ------------------------------------------------------------------ bounds
\* Significand width of the modelled floats (53 in the program); products of two
\* significands must fit TLC's 32-bit integers, which allows up to 13.
MantBits == 11
\* Tickers are 1..NumTickers; ticker order is integer order.
NumTickers == 3
\* Dates are 1..MaxDate; date order is integer order ("YYYY-MM-DD" strings
\* compare the same way).
MaxDate == 3
\* Number of invocations of compute_index_value in one behaviour.
MaxRuns == 3
\* LIMIT of the top-N query (100 in the program).
TopLimit == 2
\* stop_after_attempt of the download helper (10 in the program).
MaxAttempts == 3
\* max_chunk_len of the downloader (20 in the program).
ChunkLen == 2
\* Number of invocations in one behaviour when the price provider may signal
\* rate limiting.
MaxLimitedRuns == 2
\* n_jobs of the fundamentals refresh (concurrency = 5 in the program).
Concurrency == 2
\* Number of invocations in one behaviour when the refresh is followed worker
\* by worker.
MaxRefreshRuns == 2

Tickers == 1..NumTickers
Dates == 1..MaxDate

\* ------------------------------------------------------------- float model
\* A float is <<m, e>> standing for m * 2^e, with 2^(MantBits-1) <= m < 2^MantBits,
\* or <<0, 0>> for zero.  Only non-negative values occur in the program.
Zero == <<0, 0>>

Pow2(k) == 2 ^ k

RECURSIVE BitLen(_)
BitLen(n) == IF n = 0 THEN 0 ELSE 1 + BitLen(n \div 2)

\* The float nearest to n * 2^e (ties to the even significand).
Round(n, e) ==
    IF n = 0 THEN Zero
    ELSE LET L == BitLen(n) IN
         IF L <= MantBits
         THEN <<n * Pow2(MantBits - L), e - (MantBits - L)>>
         ELSE LET s    == L - MantBits
                  q    == n \div Pow2(s)
                  r    == n % Pow2(s)
                  half == Pow2(s - 1)
                  up   == r > half \/ (r = half /\ q % 2 = 1)
                  q1   == IF up THEN q + 1 ELSE q
              IN IF q1 = Pow2(MantBits)
                 THEN <<Pow2(MantBits - 1), e + s + 1>>
                 ELSE <<q1, e + s>>

\* int -> float (Python converts an int operand, SQLite a REAL column value).
FromInt(n) == Round(n, 0)

\* a * b
FMul(a, b) == Round(a[1] * b[1], a[2] + b[2])

\* a / b, b # 0: the quotient to MantBits + 2 bits and a sticky bit, rounded once.
FDiv(a, b) ==
    IF a = Zero THEN Zero
    ELSE LET num == a[1] * Pow2(MantBits + 2)
             q   == num \div b[1]
             st  == IF num % b[1] = 0 THEN 0 ELSE 1
         IN Round(2 * q + st, a[2] - b[2] - (MantBits + 3))

\* a + b
FAdd(a, b) ==
    IF a = Zero THEN b
    ELSE IF b = Zero THEN a
    ELSE IF a[2] - b[2] > MantBits + 2 THEN a
    ELSE IF b[2] - a[2] > MantBits + 2 THEN b
    ELSE LET e == IF a[2] < b[2] THEN a[2] ELSE b[2]
         IN Round(a[1] * Pow2(a[2] - e) + b[1] * Pow2(b[2] - e), e)

\* a < b
FLess(a, b) ==
    IF a = Zero THEN b # Zero
    ELSE IF b = Zero THEN FALSE
    ELSE a[2] < b[2] \/ (a[2] = b[2] /\ a[1] < b[1])


\* max over a non-empty set of integers
MaxOf(S) == CHOOSE m \in S : \A o \in S : o <= m

\* Python sorted() over a collection of distinct tickers
RECURSIVE sorted(_)
sorted(S) ==
    IF S = {} THEN <<>>
    ELSE LET m == CHOOSE a \in S : \A o \in S : a <= o
         IN <<m>> \o sorted(S \ {m})

Range(seq) == {seq[i] : i \in 1..Len(seq)}

\* ---------------------------------------------------------------- provider
\* What the external providers answer for one date: whether the market was
\* open, the constituent list, and the closing price of every constituent
\* that has one.  The answer for a date is drawn when the date is first run
\* and repeated on every later run of that date.
Listing(S) == [open |-> TRUE, universe |-> sorted(S), close |-> [t \in S |-> 3]]

\* a weekend or holiday: the price provider has no row for the date
Closed == [Listing(Tickers) EXCEPT !.open = FALSE, !.close = <<>>]

Markets ==
    {Closed, Listing(Tickers)}
    \cup {[Listing(Tickers) EXCEPT !.close[m] = 1] : m \in Tickers}
    \cup {[Listing(Tickers) EXCEPT !.close = [t \in Tickers \ {m} |-> 3]] : m \in Tickers}
    \cup {Listing(Tickers \ {m}) : m \in Tickers}

\* yf.Ticker(ticker).quarterly_balance_sheet: (report_date, Ordinary Shares Number)
quarterly_balance_sheet(ticker) ==
    CASE ticker = 1 -> << <<0, 4>>, <<MaxDate + 1, 8>> >>
      [] ticker = 2 -> << <<0, 2>>, <<2, 4>> >>
      [] OTHER      -> << <<2, 4>> >>

\* ------------------------------------------------------------------ tables
\* A table is the set of its rows; a row is the tuple of its columns.
\* quarterly_shares  <<ticker, report_date, shares_outstanding>>  key 2 columns
\* market_caps       <<date, ticker, shares, closing_price, market_cap>>  key 2
\* index_composition <<date, ticker, ticker_qty>>                 key 2 columns
\* index_performance <<date, index_value>>                        key 1 column

\* INSERT OR REPLACE of one row into a table whose key is its first k columns
InsertOrReplace(table, row, k) ==
    {r \in table : SubSeq(r, 1, k) # SubSeq(row, 1, k)} \cup {row}

\* cursor.executemany("INSERT OR REPLACE ...", data)
RECURSIVE ExecuteMany(_, _, _)
ExecuteMany(table, data, k) ==
    IF data = <<>> THEN table
    ELSE ExecuteMany(InsertOrReplace(table, Head(data), k), Tail(data), k)

store_quarterly_shares(table, data) == ExecuteMany(table, data, 2)

store_market_data(table, market_data) == ExecuteMany(table, market_data, 2)

store_new_composition(table, data) == ExecuteMany(table, data, 2)

store_index_value(table, date, index_value) ==
    InsertOrReplace(table, <<date, index_value>>, 1)

\* The rows of a (date, ticker)-keyed table for one date in the order of the
\* primary-key index, which is the order SQLite visits them for "WHERE date = ?".
RECURSIVE IndexScan(_)
IndexScan(rows) ==
    IF rows = {} THEN <<>>
    ELSE LET r == CHOOSE a \in rows : \A o \in rows : a[2] <= o[2]
         IN <<r>> \o IndexScan(rows \ {r})

\* ORDER BY market_cap DESC: SQLite's sorter keeps rows with equal keys in the
\* order they were visited.
\* r placed behind the rows of sorted whose market_cap is not smaller
InsertByMarketCap(ordered, r) ==
    LET k == Cardinality({i \in 1..Len(ordered) : ~FLess(ordered[i][5], r[5])})
    IN SubSeq(ordered, 1, k) \o <<r>> \o SubSeq(ordered, k + 1, Len(ordered))

RECURSIVE OrderByMarketCapDesc(_)
OrderByMarketCapDesc(rows) ==
    IF rows = <<>> THEN <<>>
    ELSE InsertByMarketCap(OrderByMarketCapDesc(SubSeq(rows, 1, Len(rows) - 1)), rows[Len(rows)])

Limit(rows, n) == SubSeq(rows, 1, IF Len(rows) < n THEN Len(rows) ELSE n)

\* get_top_100_stocks over a scan that visits the date's rows in descending
\* ticker order, so that equal market caps rank the larger ticker first
get_top_100_stocks_ties_descending(table, date) ==
    LET scan == IndexScan({r \in table : r[1] = date})
        rows == Limit(OrderByMarketCapDesc([i \in 1..Len(scan) |-> scan[Len(scan) + 1 - i]]),
                      TopLimit)
    IN sorted({rows[i][2] : i \in 1..Len(rows)})

get_top_100_stocks(table, date) ==
    LET rows == Limit(OrderByMarketCapDesc(IndexScan({r \in table : r[1] = date})), TopLimit)
    IN sorted({rows[i][2] : i \in 1..Len(rows)})

\* (SELECT MAX(date) FROM index_composition WHERE date < ?) as the set of dates a
\* row's date can equal: one date, or none when the subquery yields NULL.
MaxDateUpTo(table, date) ==
    LET ds == {r[1] : r \in {q \in table : q[1] <= date}}
    IN IF ds = {} THEN {} ELSE {MaxOf(ds)}

MaxDateBefore(table, date) ==
    LET ds == {r[1] : r \in {q \in table : q[1] < date}}
    IN IF ds = {} THEN {} ELSE {MaxOf(ds)}

get_previous_top_100(table, date) ==
    LET results == {r \in table : r[1] \in MaxDateBefore(table, date)}
    IN IF results # {} THEN sorted({r[2] : r \in results}) ELSE <<>>

\* fetch_recent_composition reading the latest snapshot up to and including date
fetch_recent_composition_up_to(table, date) ==
    LET results == IndexScan({r \in table : r[1] \in MaxDateUpTo(table, date)})
    IN [i \in 1..Len(results) |-> <<results[i][2], results[i][3]>>]

\* list of <<ticker, ticker_qty>>
fetch_recent_composition(table, date) ==
    LET results == IndexScan({r \in table : r[1] \in MaxDateBefore(table, date)})
    IN [i \in 1..Len(results) |-> <<results[i][2], results[i][3]>>]

\* fetch_outstanding_shares ordering by report_date ascending: the oldest
\* observation up to date
fetch_outstanding_shares_oldest(table, date, tickers) ==
    [ticker \in Range(tickers) |->
        LET rows == {r \in table : r[1] = ticker /\ r[2] <= date}
        IN IF rows = {} THEN <<>>
           ELSE <<(CHOOSE r \in rows : \A o \in rows : r[2] <= o[2])[3]>>]

\* fetch_outstanding_shares without the report_date <= date condition
fetch_outstanding_shares_any_date(table, date, tickers) ==
    [ticker \in Range(tickers) |->
        LET rows == {r \in table : r[1] = ticker}
        IN IF rows = {} THEN <<>>
           ELSE <<(CHOOSE r \in rows : \A o \in rows : o[2] <= r[2])[3]>>]

\* ticker -> fetchone(): <<shares_outstanding>>, or <<>> for None
fetch_outstanding_shares(table, date, tickers) ==
    [ticker \in Range(tickers) |->
        LET rows == {r \in table : r[1] = ticker /\ r[2] <= date}
        IN IF rows = {} THEN <<>>
           ELSE <<(CHOOSE r \in rows : \A o \in rows : o[2] <= r[2])[3]>>]


\* ------------------------------------------------------------------- state
VARIABLES
    quarterly_shares,    \* table
    market_caps,         \* table
    index_composition,   \* table
    index_performance,   \* table
    provider,            \* date -> the providers' answer for it, <<>> until first asked
    run,                 \* the last invocation of compute_index_value: its arguments, how
                         \* it ended, whether it rebalanced, the provider calls it made,
                         \* whether it repeated the date's latest completed run with the
                         \* same inputs (again), and whether only later dates were run
                         \* since that run (inorder)
    runs,                \* number of invocations so far
    ascending,           \* every invocation so far was for a later date than the one before
    last,                \* date -> the inputs of its latest completed run, <<>> if none
    laterOnly,           \* dates computed and since then followed by runs of later dates only
    download,            \* the price download of the last invocation: the provider's
                         \* signals, the attempts made for each chunk it requested and
                         \* whether it raised
    pool                 \* the fundamentals refresh in progress or last finished: its
                         \* phase, date, submitted tickers, the tasks waiting and in a
                         \* worker, the result of each finished task, the fundamentals
                         \* provider's answer to it, the order of completion and the
                         \* number of writes to the store

tables == <<quarterly_shares, market_caps, index_composition, index_performance>>

vars == <<quarterly_shares, market_caps, index_composition, index_performance,
          provider, run, runs, ascending, last, laterOnly, download, pool>>

\* ---------------------------------------------------------------- pipeline
is_trading_day(mkt) == mkt.open

fetch_sp500_stocks(mkt) == mkt.universe

\* [(ticker, report_date, shares)] of one ticker
fetch_quarterly_shares(ticker) ==
    LET sheet == quarterly_balance_sheet(ticker)
    IN [i \in 1..Len(sheet) |-> <<ticker, sheet[i][1], FromInt(sheet[i][2])>>]

RECURSIVE Flatten(_)
Flatten(lists) ==
    IF lists = <<>> THEN <<>> ELSE Head(lists) \o Flatten(Tail(lists))

\* the quarterly_shares table after the refresh
fetch_and_store_all_quarterly_shares(table, tickers) ==
    LET ticker_data_list == Flatten([i \in 1..Len(tickers) |-> fetch_quarterly_shares(tickers[i])])
    IN IF ticker_data_list # <<>>
       THEN store_quarterly_shares(table, ticker_data_list)
       ELSE table

\* ------------------------------------------------------------ price download
\* The price provider's rate-limit signals for one chunk request: signals[n] is
\* whether the n-th attempt ends with the signal set (yf.shared._ERRORS not empty).
\* The provider signals during the first k attempts, or during all but the first.
SignalPatterns ==
    {[n \in 1..MaxAttempts |-> n <= k] : k \in 0..MaxAttempts}
    \cup {[n \in 1..MaxAttempts |-> n > 1]}

\* tickers[i : i + max_chunk_len] for i in range(0, len(tickers), max_chunk_len)
sub_tickers_list(tickers) ==
    [i \in 1..((Len(tickers) + ChunkLen - 1) \div ChunkLen) |->
        SubSeq(tickers, (i - 1) * ChunkLen + 1,
               IF i * ChunkLen < Len(tickers) THEN i * ChunkLen ELSE Len(tickers))]

\* the most chunks a universe can have
MaxChunks == (NumTickers + ChunkLen - 1) \div ChunkLen

\* a provider that never signals
Quiet == [i \in 1..MaxChunks |-> [n \in 1..MaxAttempts |-> FALSE]]

\* @retry(stop=stop_after_attempt(...)): the n-th attempt and what follows it.
\* An attempt that ends with the signal raises; tenacity calls again unless it
\* was the last allowed attempt, and then raises RetryError.
RECURSIVE Attempt(_, _)
Attempt(signals, n) ==
    IF ~signals[n] THEN [attempts |-> n, raised |-> FALSE]
    ELSE IF n >= MaxAttempts THEN [attempts |-> n, raised |-> TRUE]
    ELSE Attempt(signals, n + 1)

\* the retrying stopped one attempt early
yf_download_helper_short(signals) ==
    IF \A n \in 1..(MaxAttempts - 1) : signals[n]
    THEN [attempts |-> MaxAttempts - 1, raised |-> TRUE]
    ELSE Attempt(signals, 1)

\* [attempts, raised] of one chunk request
yf_download_helper(signals) == Attempt(signals, 1)

\* the chunk loop from chunk i on, h being the outcome of chunk i
RECURSIVE DownloadFrom(_, _, _)
ChunkDone(chunks, signals, i, h) ==
    IF h.raised THEN [attempts |-> <<h.attempts>>, raised |-> TRUE]
    ELSE [attempts |-> <<h.attempts>> \o DownloadFrom(chunks, signals, i + 1).attempts,
          raised   |-> DownloadFrom(chunks, signals, i + 1).raised]

DownloadFrom(chunks, signals, i) ==
    IF i > Len(chunks) THEN [attempts |-> <<>>, raised |-> FALSE]
    ELSE ChunkDone(chunks, signals, i, yf_download_helper(signals[i]))

\* [attempts, raised]: the attempts made for each chunk requested, in order, and
\* whether a chunk request raised (no later chunk is requested then)
yf_downloader(tickers, signals) == DownloadFrom(sub_tickers_list(tickers), signals, 1)

\* ticker -> closing price, for the tickers the download has a price for
fetch_closing_prices(mkt) == [t \in DOMAIN mkt.close |-> FromInt(mkt.close[t])]

RECURSIVE MarketRows(_, _, _, _)
MarketRows(shares_info, date, prices, tickers) ==
    IF tickers = <<>> THEN <<>>
    ELSE LET ticker == Head(tickers)
             rest   == MarketRows(shares_info, date, prices, Tail(tickers))
         IN IF shares_info[ticker] # <<>> /\ ticker \in DOMAIN prices
            THEN LET shares_outstanding == shares_info[ticker][1]
                     curr_close         == prices[ticker]
                     market_cap         == FMul(curr_close, shares_outstanding)
                 IN <<<<date, ticker, shares_outstanding, curr_close, market_cap>>>> \o rest
            ELSE rest

fetch_market_data(shares_table, date, prices, tickers) ==
    MarketRows(fetch_outstanding_shares(shares_table, date, tickers), date, prices, tickers)

\* RebalanceRows storing the value allotted to a ticker instead of its quantity
RebalanceRows_allotment(date, prices, new_top_100, curr_index_value) ==
    LET weight == FDiv(FromInt(1), FromInt(Len(new_top_100)))
    IN [i \in 1..Len(new_top_100) |->
          <<date, new_top_100[i], FMul(weight, curr_index_value)>>]

\* RebalanceRows with the weight of a full index, 1 / TopLimit, whatever the
\* number of tickers
RebalanceRows_full_weight(date, prices, new_top_100, curr_index_value) ==
    LET weight == FDiv(FromInt(1), FromInt(TopLimit))
    IN [i \in 1..Len(new_top_100) |->
          <<date, new_top_100[i],
            FDiv(FMul(weight, curr_index_value), prices[new_top_100[i]])>>]

\* The rows rebalance_index builds: (date, ticker, (weight * value) / price)
RebalanceRows(date, prices, new_top_100, curr_index_value) ==
    LET weight == FDiv(FromInt(1), FromInt(Len(new_top_100)))
    IN [i \in 1..Len(new_top_100) |->
          <<date, new_top_100[i],
            FDiv(FMul(weight, curr_index_value), prices[new_top_100[i]])>>]

\* rebalance_index overwriting the most recent earlier snapshot, when there is
\* one, instead of writing a snapshot for date
rebalance_index_in_place(table, date, prices, new_top_100, curr_index_value) ==
    IF Len(new_top_100) = 0
    THEN [exc |-> "ZeroDivisionError", index_composition |-> table]
    ELSE IF \E i \in 1..Len(new_top_100) : new_top_100[i] \notin DOMAIN prices
    THEN [exc |-> "KeyError", index_composition |-> table]
    ELSE [exc |-> "",
          index_composition |->
              store_new_composition(
                  table,
                  RebalanceRows(IF MaxDateBefore(table, date) = {} THEN date
                                ELSE MaxOf(MaxDateBefore(table, date)),
                                prices, new_top_100, curr_index_value))]

\* [exc, index_composition]: the exception raised ("" for none) and the table after
rebalance_index(table, date, prices, new_top_100, curr_index_value) ==
    IF Len(new_top_100) = 0
    THEN [exc |-> "ZeroDivisionError", index_composition |-> table]
    ELSE IF \E i \in 1..Len(new_top_100) : new_top_100[i] \notin DOMAIN prices
    THEN [exc |-> "KeyError", index_composition |-> table]
    ELSE [exc |-> "",
          index_composition |->
              store_new_composition(table, RebalanceRows(date, prices, new_top_100, curr_index_value))]

\* [exc, index_composition, rebalanced] from rebalance_index's result
Rebalanced(r) ==
    [exc |-> r.exc, index_composition |-> r.index_composition, rebalanced |-> r.exc = ""]

\* track_composition_changes rebalancing when a stock was added as well
track_composition_changes_on_added(table, date, prices, prev_top_100, new_top_100, curr_index_value) ==
    IF Range(prev_top_100) \ Range(new_top_100) # {}
       \/ Range(new_top_100) \ Range(prev_top_100) # {}
       \/ Len(prev_top_100) = 0
    THEN Rebalanced(rebalance_index(table, date, prices, new_top_100, curr_index_value))
    ELSE [exc |-> "", index_composition |-> table, rebalanced |-> FALSE]

\* track_composition_changes rebalancing on every run
track_composition_changes_always(table, date, prices, prev_top_100, new_top_100, curr_index_value) ==
    Rebalanced(rebalance_index(table, date, prices, new_top_100, curr_index_value))

\* [exc, index_composition, rebalanced]
track_composition_changes(table, date, prices, prev_top_100, new_top_100, curr_index_value) ==
    IF Range(prev_top_100) \ Range(new_top_100) # {} \/ Len(prev_top_100) = 0
    THEN Rebalanced(rebalance_index(table, date, prices, new_top_100, curr_index_value))
    ELSE [exc |-> "", index_composition |-> table, rebalanced |-> FALSE]

\* Revalue adding up the quantities without pricing them
RECURSIVE Revalue_unpriced(_, _)
Revalue_unpriced(recent_composition, prices) ==
    IF recent_composition = <<>> THEN Zero
    ELSE FAdd(Revalue_unpriced(SubSeq(recent_composition, 1, Len(recent_composition) - 1), prices),
              recent_composition[Len(recent_composition)][2])

\* curr_index_value = 0; for ticker, qty in recent_composition: += prices[ticker] * qty
RECURSIVE Revalue(_, _)
Revalue(recent_composition, prices) ==
    IF recent_composition = <<>> THEN Zero
    ELSE FAdd(Revalue(SubSeq(recent_composition, 1, Len(recent_composition) - 1), prices),
              FMul(prices[recent_composition[Len(recent_composition)][1]],
                   recent_composition[Len(recent_composition)][2]))

\* dump_index_value after track_composition_changes returned t:
\* store_index_value is reached only when nothing was raised
StoreIndexValue(t, performance, date, curr_index_value) ==
    [exc |-> t.exc,
     index_composition |-> t.index_composition,
     index_performance |-> IF t.exc = ""
                           THEN store_index_value(performance, date, curr_index_value)
                           ELSE performance,
     rebalanced |-> t.rebalanced]

\* dump_index_value from the value it derived
TrackAndStore(composition, performance, date, prices, prev_top_100, new_top_100, curr_index_value) ==
    StoreIndexValue(track_composition_changes(composition, date, prices, prev_top_100,
                                              new_top_100, curr_index_value),
                    performance, date, curr_index_value)

\* dump_index_value from the composition it fetched
ValueAndStore(composition, performance, date, prices, prev_top_100, new_top_100, recent_composition) ==
    IF \E i \in 1..Len(recent_composition) : recent_composition[i][1] \notin DOMAIN prices
    THEN [exc |-> "KeyError", index_composition |-> composition,
          index_performance |-> performance, rebalanced |-> FALSE]
    ELSE TrackAndStore(composition, performance, date, prices, prev_top_100, new_top_100,
                       IF recent_composition # <<>>
                       THEN Revalue(recent_composition, prices)
                       ELSE FromInt(10000))

\* [exc, index_composition, index_performance, rebalanced]
dump_index_value(composition, performance, date, prices, prev_top_100, new_top_100) ==
    ValueAndStore(composition, performance, date, prices, prev_top_100, new_top_100,
                  fetch_recent_composition(composition, date))

\* One invocation of ComputeIndex100(date, fetch_quarterly_results).compute_index_value()
\* against the providers' answer mkt: the four tables after it, how it ended
\* ("holiday", "done" or the exception that left it), whether it rebalanced,
\* and the provider calls it issued.  The stages below are the lines of
\* compute_index_value in order, each handing its results to the next.

\* the result, from dump_index_value's d
Finished(fetch_quarterly_results, shares, caps, d) ==
    [quarterly_shares |-> shares, market_caps |-> caps,
     index_composition |-> d.index_composition,
     index_performance |-> d.index_performance,
     outcome |-> IF d.exc = "" THEN "done" ELSE d.exc,
     rebalanced |-> d.rebalanced,
     calls |-> <<"is_trading_day", "fetch_sp500_stocks">>
               \o (IF fetch_quarterly_results THEN <<"fetch_quarterly_shares">> ELSE <<>>)
               \o <<"yf_downloader">>]

\* get_previous_top_100, get_top_100_stocks, dump_index_value
RankAndDump(date, fetch_quarterly_results, prices, shares, caps) ==
    Finished(fetch_quarterly_results, shares, caps,
             dump_index_value(index_composition, index_performance, date, prices,
                              get_previous_top_100(index_composition, date),
                              get_top_100_stocks(caps, date)))

\* fetch_market_data, store_market_data
ComputeMarketCaps(date, fetch_quarterly_results, sp500_tickers, prices, shares) ==
    RankAndDump(date, fetch_quarterly_results, prices, shares,
                store_market_data(market_caps,
                                  fetch_market_data(shares, date, prices, sp500_tickers)))

\* fetch_and_store_all_quarterly_shares (if asked for), fetch_closing_prices
RefreshAndPrice(date, fetch_quarterly_results, mkt, sp500_tickers) ==
    ComputeMarketCaps(date, fetch_quarterly_results, sp500_tickers, fetch_closing_prices(mkt),
                      IF fetch_quarterly_results
                      THEN fetch_and_store_all_quarterly_shares(quarterly_shares, sp500_tickers)
                      ELSE quarterly_shares)

\* Pipeline without the trading-day check
Pipeline_unchecked(date, fetch_quarterly_results, mkt) ==
    RefreshAndPrice(date, fetch_quarterly_results, mkt, fetch_sp500_stocks(mkt))

Pipeline(date, fetch_quarterly_results, mkt) ==
    IF ~is_trading_day(mkt)
    THEN [quarterly_shares |-> quarterly_shares, market_caps |-> market_caps,
          index_composition |-> index_composition, index_performance |-> index_performance,
          outcome |-> "holiday", rebalanced |-> FALSE, calls |-> <<"is_trading_day">>]
    ELSE RefreshAndPrice(date, fetch_quarterly_results, mkt, fetch_sp500_stocks(mkt))

Init ==
    /\ quarterly_shares = {}
    /\ market_caps = {}
    /\ index_composition = {}
    /\ index_performance = {}
    /\ provider = [d \in Dates |-> <<>>]
    /\ run = [date |-> 0, refresh |-> FALSE, outcome |-> "none", rebalanced |-> FALSE,
              calls |-> <<>>, again |-> FALSE, inorder |-> FALSE]
    /\ runs = 0
    /\ ascending = TRUE
    /\ last = [d \in Dates |-> <<>>]
    /\ laterOnly = {}
    /\ download = [signals |-> <<>>, attempts |-> <<>>, raised |-> FALSE]
    /\ pool = [phase |-> "idle", date |-> 0, tickers |-> <<>>, waiting |-> {}, running |-> {},
               results |-> <<>>, answers |-> <<>>, order |-> <<>>, writes |-> 0]

\* The state after an invocation whose pipeline gave p
Invoked(date, fetch_quarterly_results, mkt, p) ==
    /\ provider' = [provider EXCEPT ![date] = mkt]
    /\ quarterly_shares' = p.quarterly_shares
    /\ market_caps' = p.market_caps
    /\ index_composition' = p.index_composition
    /\ index_performance' = p.index_performance
    /\ run' = [date |-> date, refresh |-> fetch_quarterly_results,
               outcome |-> p.outcome, rebalanced |-> p.rebalanced, calls |-> p.calls,
               again |-> /\ p.outcome # "holiday"
                         /\ last[date] = [refresh |-> fetch_quarterly_results,
                                          shares  |-> fetch_outstanding_shares(
                                                          p.quarterly_shares, date, mkt.universe)],
               inorder |-> date \in laterOnly]
    /\ runs' = runs + 1
    /\ ascending' = (ascending /\ date > run.date)
    /\ last' = IF p.outcome = "done"
               THEN [last EXCEPT ![date] =
                       [refresh |-> fetch_quarterly_results,
                        shares  |-> fetch_outstanding_shares(p.quarterly_shares, date, mkt.universe)]]
               ELSE last
    /\ laterOnly' = IF p.outcome = "holiday" THEN laterOnly
                    ELSE {d \in laterOnly : d < date}
                         \cup (IF p.outcome = "done" THEN {date} ELSE {})

\* the price download of an invocation: none on a closed day
Downloaded(mkt, signals) ==
    IF ~is_trading_day(mkt) THEN [signals |-> <<>>, attempts |-> <<>>, raised |-> FALSE]
    ELSE [signals  |-> signals,
          attempts |-> yf_downloader(fetch_sp500_stocks(mkt), signals).attempts,
          raised   |-> yf_downloader(fetch_sp500_stocks(mkt), signals).raised]

\* an invocation during which the price provider signals no rate limiting
compute_index_value(date, fetch_quarterly_results) ==
    /\ runs < MaxRuns
    /\ \E mkt \in (IF provider[date] = <<>> THEN Markets ELSE {provider[date]}) :
         /\ Invoked(date, fetch_quarterly_results, mkt,
                    Pipeline(date, fetch_quarterly_results, mkt))
         /\ download' = Downloaded(mkt, Quiet)
    /\ UNCHANGED pool

Next == \E date \in Dates, fetch_quarterly_results \in BOOLEAN :
            compute_index_value(date, fetch_quarterly_results)

Spec == Init /\ [][Next]_vars

\* ------------------------------------------------- runs under rate limiting
\* PipelineLimited with the exception surfacing after the market data was stored
PipelineLimited_late(date, fetch_quarterly_results, mkt, dl) ==
    IF dl.raised
    THEN [Pipeline(date, fetch_quarterly_results, mkt) EXCEPT
              !.index_composition = index_composition,
              !.index_performance = index_performance,
              !.outcome = "RetryError", !.rebalanced = FALSE]
    ELSE Pipeline(date, fetch_quarterly_results, mkt)

\* compute_index_value when the download gave dl: if a chunk request raised,
\* the exception leaves fetch_closing_prices and compute_index_value after the
\* fundamentals refresh and before anything else is stored
PipelineLimited(date, fetch_quarterly_results, mkt, dl) ==
    IF dl.raised
    THEN [quarterly_shares |-> IF fetch_quarterly_results
                               THEN fetch_and_store_all_quarterly_shares(
                                        quarterly_shares, fetch_sp500_stocks(mkt))
                               ELSE quarterly_shares,
          market_caps |-> market_caps,
          index_composition |-> index_composition,
          index_performance |-> index_performance,
          outcome |-> "RetryError", rebalanced |-> FALSE,
          calls |-> <<"is_trading_day", "fetch_sp500_stocks">>
                    \o (IF fetch_quarterly_results THEN <<"fetch_quarterly_shares">> ELSE <<>>)
                    \o <<"yf_downloader">>]
    ELSE Pipeline(date, fetch_quarterly_results, mkt)

\* the providers' answers drawn when the price provider may signal
LimitedMarkets == {Closed, Listing(Tickers), [Listing(Tickers) EXCEPT !.close[1] = 1]}

\* an invocation during which the price provider signals as in signals
compute_index_value_limited(date, fetch_quarterly_results, signals) ==
    /\ runs < MaxLimitedRuns
    /\ \E mkt \in (IF provider[date] = <<>> THEN LimitedMarkets ELSE {provider[date]}) :
         /\ Invoked(date, fetch_quarterly_results, mkt,
                    PipelineLimited(date, fetch_quarterly_results, mkt,
                                    Downloaded(mkt, signals)))
         /\ download' = Downloaded(mkt, signals)
    /\ UNCHANGED pool

NextLimited ==
    \E date \in Dates, fetch_quarterly_results \in BOOLEAN,
       signals \in [1..MaxChunks -> SignalPatterns] :
        compute_index_value_limited(date, fetch_quarterly_results, signals)

SpecLimited == Init /\ [][NextLimited]_vars

\* ------------------------------------------ the refresh, worker by worker
\* An invocation with fetch_quarterly_results = True on a trading day, its
\* Parallel(n_jobs = concurrency) call followed task by task.  The fundamentals
\* provider answers a task with a balance sheet that has the shares field
\* ("sheet"), with one that lacks it ("nofield"), or the request fails ("error").

\* fetch_quarterly_shares(ticker) under the provider's answer
FetchTask(ticker, answer) ==
    IF answer = "sheet" THEN fetch_quarterly_shares(ticker) ELSE <<>>

\* is_trading_day passed, fetch_sp500_stocks returned, Parallel was called
StartRefresh(date, mkt) ==
    /\ runs < MaxRefreshRuns
    /\ pool.phase # "fetching"
    /\ is_trading_day(mkt)
    /\ provider' = [provider EXCEPT ![date] = mkt]
    /\ pool' = [phase |-> "fetching", date |-> date, tickers |-> fetch_sp500_stocks(mkt),
                waiting |-> 1..Len(fetch_sp500_stocks(mkt)), running |-> {},
                results |-> <<>>, answers |-> <<>>, order |-> <<>>, writes |-> 0]
    /\ UNCHANGED <<tables, run, runs, ascending, last, laterOnly, download>>

\* a task is started whether or not a worker is free
Dispatch_unbounded ==
    /\ pool.phase = "fetching"
    /\ pool.waiting # {}
    /\ pool' = [pool EXCEPT
                   !.waiting = @ \ {CHOOSE i \in pool.waiting : \A j \in pool.waiting : i <= j},
                   !.running = @ \cup {CHOOSE i \in pool.waiting : \A j \in pool.waiting : i <= j}]
    /\ UNCHANGED <<tables, provider, run, runs, ascending, last, laterOnly, download>>

\* a free worker takes the next task
Dispatch ==
    /\ pool.phase = "fetching"
    /\ pool.waiting # {}
    /\ Cardinality(pool.running) < Concurrency
    /\ pool' = [pool EXCEPT
                   !.waiting = @ \ {CHOOSE i \in pool.waiting : \A j \in pool.waiting : i <= j},
                   !.running = @ \cup {CHOOSE i \in pool.waiting : \A j \in pool.waiting : i <= j}]
    /\ UNCHANGED <<tables, provider, run, runs, ascending, last, laterOnly, download>>

\* the task of ticker number i returns its list
Complete(i, answer) ==
    /\ pool.phase = "fetching"
    /\ i \in pool.running
    /\ pool' = [pool EXCEPT
                   !.running = @ \ {i},
                   !.results = @ @@ (i :> FetchTask(pool.tickers[i], answer)),
                   !.answers = @ @@ (i :> answer),
                   !.order   = Append(@, i)]
    /\ UNCHANGED <<tables, provider, run, runs, ascending, last, laterOnly, download>>

\* the task of ticker number i raises: Parallel raises in the caller, which
\* leaves fetch_and_store_all_quarterly_shares and compute_index_value
Fail(i) ==
    /\ pool.phase = "fetching"
    /\ i \in pool.running
    /\ pool' = [pool EXCEPT !.phase = "failed", !.running = {}, !.waiting = {},
                             !.answers = @ @@ (i :> "error"), !.order = Append(@, i)]
    /\ Invoked(pool.date, TRUE, provider[pool.date],
               [quarterly_shares |-> quarterly_shares, market_caps |-> market_caps,
                index_composition |-> index_composition,
                index_performance |-> index_performance,
                outcome |-> "FetchError", rebalanced |-> FALSE,
                calls |-> <<"is_trading_day", "fetch_sp500_stocks", "fetch_quarterly_shares">>])
    /\ download' = [signals |-> <<>>, attempts |-> <<>>, raised |-> FALSE]

\* the quarterly_shares table after the flattened results were stored
Stored(table, ticker_data_list) ==
    IF ticker_data_list # <<>> THEN store_quarterly_shares(table, ticker_data_list) ELSE table

\* all tasks returned: the caller flattens the results in submission order,
\* stores them and goes on to the price fetch and the rest of the pipeline
Join ==
    /\ pool.phase = "fetching"
    /\ pool.waiting = {} /\ pool.running = {}
    /\ pool' = [pool EXCEPT
                   !.phase = "done",
                   !.writes = IF Flatten([i \in 1..Len(pool.tickers) |-> pool.results[i]]) # <<>>
                              THEN @ + 1 ELSE @]
    /\ Invoked(pool.date, TRUE, provider[pool.date],
               ComputeMarketCaps(pool.date, TRUE, pool.tickers,
                                 fetch_closing_prices(provider[pool.date]),
                                 Stored(quarterly_shares,
                                        Flatten([i \in 1..Len(pool.tickers) |-> pool.results[i]]))))
    /\ download' = Downloaded(provider[pool.date], Quiet)

NextRefresh ==
    \/ \E date \in Dates :
          \E mkt \in (IF provider[date] = <<>> THEN LimitedMarkets ELSE {provider[date]}) :
              StartRefresh(date, mkt)
    \/ Dispatch
    \/ \E i \in 1..NumTickers, answer \in {"sheet", "nofield"} : Complete(i, answer)
    \/ \E i \in 1..NumTickers : Fail(i)
    \/ Join

SpecRefresh == Init /\ [][NextRefresh]_vars

\* ------------------------------------------------------- notions of the claims
\* the rows of a (date, ticker)-keyed table for one date, and their tickers
RowsOf(table, date) == {r \in table : r[1] = date}

TickersOf(rows) == {r[2] : r \in rows}

\* the index values stored for a date (the key allows one at most)
ValueAt(date) == {r[2] : r \in RowsOf(index_performance, date)}

\* every ticker of the rows has a closing price on date
AllPriced(rows, date) ==
    provider[date] # <<>> /\ TickersOf(rows) \subseteq DOMAIN provider[date].close

\* sum of ticker_qty * closing price over composition rows of one snapshot,
\* close being the closing prices of the day, evaluated in floats in ticker order
RECURSIVE SumOver(_, _)
SumOver(rows, close) ==
    IF rows = {} THEN Zero
    ELSE LET r == CHOOSE a \in rows : \A o \in rows : o[2] <= a[2]
         IN FAdd(SumOver(rows \ {r}, close), FMul(r[3], FromInt(close[r[2]])))

Worth(rows, date) == SumOver(rows, provider[date].close)

\* |a - b| <= k * 2^(-MantBits) * b: a and b agree up to k roundings
Near(a, b, k) ==
    /\ a # Zero /\ b # Zero
    /\ a[2] - b[2] \in -2..2
    /\ LET e == IF a[2] < b[2] THEN a[2] ELSE b[2]
           A == a[1] * Pow2(a[2] - e)
           B == b[1] * Pow2(b[2] - e)
       IN (IF A < B THEN B - A ELSE A - B) * Pow2(MantBits) <= k * B

\* the last invocation ran the pipeline (it was a trading day)
Traded == run.outcome \notin {"none", "holiday"}

\* the tickers of today's top 100 as the last invocation saw them
NewTop == Range(get_top_100_stocks(market_caps, run.date))

\* the snapshot dates before a date
SnapshotsBefore(table, date) == {r[1] : r \in {q \in table : q[1] < date}}

\* ------------------------------------------------------------------- claims

\* C1: a trading-day run for D with no composition row dated before D stores
\* the index value 10000 for D and writes a composition snapshot keyed D.
\* (As claimed; the run ends in ZeroDivisionError when D's top 100 is empty.)
C1_BaseValueAndSnapshot ==
    (Traded /\ SnapshotsBefore(index_composition, run.date) = {})
        => /\ ValueAt(run.date) = {FromInt(10000)}
           /\ RowsOf(index_composition, run.date) # {}

\* C2 as claimed: after a rebalance for D the sum of ticker_qty * closing price
\* over the rows written for D equals the index value stored for D exactly.
C2_RebalanceSumExact ==
    run.rebalanced =>
        ValueAt(run.date) =
            {Worth({r \in RowsOf(index_composition, run.date) : r[2] \in NewTop}, run.date)}

\* C2 amended: the sum equals the stored index value up to floating-point
\* rounding, a relative error of at most (n + 4) * 2^(-MantBits) for n rows.
C2_RebalanceSumNear ==
    run.rebalanced =>
        \E v \in ValueAt(run.date) :
            Near(Worth({r \in RowsOf(index_composition, run.date) : r[2] \in NewTop}, run.date),
                 v, Cardinality(NewTop) + 4)

\* a rebalance with a prior snapshot, so the index value is a derived one
C2_Witness ==
    /\ run.rebalanced
    /\ SnapshotsBefore(index_composition, run.date) # {}
    /\ ValueAt(run.date) # {FromInt(10000)}

\* C3: a trading-day run for D whose top-100 set equals the ticker set of the
\* most recent snapshot before D stores the sum of ticker_qty * closing price
\* on D over that snapshot's rows and leaves index_composition unchanged.
C3_UnchangedComposition ==
    [][(/\ run'.outcome \notin {"none", "holiday"}
        /\ MaxDateBefore(index_composition, run'.date) # {}
        /\ Range(get_top_100_stocks(market_caps', run'.date))
             = Range(get_previous_top_100(index_composition, run'.date)))
       => /\ run'.outcome = "done"
          /\ index_composition' = index_composition
          /\ {r[2] : r \in RowsOf(index_performance', run'.date)}
               = {SumOver({r \in index_composition :
                              r[1] \in MaxDateBefore(index_composition, run'.date)},
                          provider'[run'.date].close)}]_vars

C3_Witness ==
    /\ run.outcome = "done"
    /\ ~run.rebalanced
    /\ NewTop = Range(get_previous_top_100(index_composition, run.date))
    /\ ValueAt(run.date) # {FromInt(10000)}

\* C4: re-running the pipeline for an already computed date D with the inputs
\* of D's latest completed run, nothing or only later dates having been run in
\* between, leaves all four tables exactly as they are.
C4_RerunIdempotent ==
    [][run'.again /\ run'.inorder /\ runs' # runs => UNCHANGED tables]_vars

\* a completed re-run of a date after a later date was computed
C4_Witness ==
    /\ run.again /\ run.inorder /\ run.outcome = "done"
    /\ \E d \in Dates : d > run.date /\ ValueAt(d) # {}

\* the snapshot with the greatest date <= date
ActiveSnapshot(date) ==
    {r \in index_composition :
        /\ r[1] <= date
        /\ \A o \in index_composition : o[1] <= date => o[1] <= r[1]}

RankedBefore(row, date) ==
    {o \in RowsOf(market_caps, date) :
        FLess(row[5], o[5]) \/ (o[5] = row[5] /\ o[2] < row[2])}

C7_SnapshotReplaced ==
    run.rebalanced => TickersOf(RowsOf(index_composition, run.date)) = NewTop

\* some universe ticker held in the most recent snapshot before the date of the
\* last invocation has no closing price on that date
HeldGap ==
    \E i \in 1..Len(provider[run.date].universe) :
        LET t == provider[run.date].universe[i]
        IN /\ t \in Range(get_previous_top_100(index_composition, run.date))
           /\ t \notin DOMAIN provider[run.date].close

\* C8, for the gap it singles out: a trading-day run in which a ticker held in
\* the most recent prior snapshot lacks a closing price completes and stores
\* an index value for its date.
\* (As claimed; the missing price of a held ticker raises KeyError.)
C8_DataGapTolerated ==
    (Traded /\ HeldGap) => (run.outcome = "done" /\ ValueAt(run.date) # {})

\* C9: when the trading-day check is false the invocation changes no table
\* and issues no universe, fundamentals or price fetch.
C9_HolidayNoEffect ==
    [][(runs' # runs /\ ~is_trading_day(provider'[run'.date]))
       => (UNCHANGED tables /\ run'.calls = <<"is_trading_day">>)]_vars

\* a holiday invocation on a store that holds data
C9_Witness ==
    /\ run.outcome = "holiday"
    /\ index_performance # {}
    /\ quarterly_shares # {}

\* C10: both composition lookups return all rows of the snapshot with the
\* greatest date < D, nothing when there is none, never a row dated >= D.
C10_StrictlyBefore ==
    \A d \in 1..(MaxDate + 1) :
        LET before == SnapshotsBefore(index_composition, d)
            rows   == {r \in index_composition :
                          r[1] < d /\ \A o \in before : o <= r[1]}
            recent == fetch_recent_composition(index_composition, d)
        IN /\ Range(recent) = {<<r[2], r[3]>> : r \in rows}
           /\ Len(recent) = Cardinality(rows)
           /\ Range(get_previous_top_100(index_composition, d)) = TickersOf(rows)
           /\ before = {} => (recent = <<>> /\ get_previous_top_100(index_composition, d) = <<>>)

\* two snapshots before a date and one on or after it
C10_Witness ==
    \E d \in Dates :
        /\ Cardinality(SnapshotsBefore(index_composition, d)) >= 2
        /\ RowsOf(index_composition, d) # {}

\* the dates the providers have answered for as trading days
TradedDates == {d \in Dates : provider[d] # <<>> /\ provider[d].open}

\* the tickers with a closing price on date and no quarterly_shares row with
\* report_date <= date
PricedWithoutShares(date) ==
    {t \in DOMAIN provider[date].close :
        {r \in quarterly_shares : r[1] = t /\ r[2] <= date} = {}}

\* C11: a ticker with a closing price on D and no shares observation with
\* report_date <= D has no market_caps row for D, is not in the top 100
\* returned for D and is in no composition snapshot keyed D.
C11_NoSharesNoRow ==
    \A d \in TradedDates : \A t \in PricedWithoutShares(d) :
        /\ t \notin TickersOf(RowsOf(market_caps, d))
        /\ t \notin Range(get_top_100_stocks(market_caps, d))
        /\ t \notin TickersOf(RowsOf(index_composition, d))

\* a completed run that ranked some tickers and left out a priced one that
\* has no shares observation yet
C11_Witness ==
    /\ run.outcome = "done"
    /\ PricedWithoutShares(run.date) # {}
    /\ RowsOf(market_caps, run.date) # {}
    /\ quarterly_shares # {}

\* the tickers of the most recent snapshot before the date of the last invocation
PrevTop == Range(get_previous_top_100(index_composition, run.date))

\* C12: a trading-day run whose top 100 holds a ticker that the most recent
\* prior snapshot does not hold rebalances and writes a full snapshot for its date.
\* (As claimed; the code rebalances only on a removal or without a prior snapshot.)
C12_AdditionRebalances ==
    (run.outcome = "done" /\ NewTop \ PrevTop # {})
        => /\ run.rebalanced
           /\ NewTop \subseteq TickersOf(RowsOf(index_composition, run.date))

QuantitiesAt(n) ==
    \A t \in NewTop :
        \E v \in ValueAt(run.date) :
            {r[3] : r \in {q \in RowsOf(index_composition, run.date) : q[2] = t}}
                = {FDiv(FMul(FDiv(FromInt(1), FromInt(n)), v),
                        FromInt(provider[run.date].close[t]))}

\* C14 as claimed: on a rebalance every ticker of the new top 100 has one row
\* keyed D whose quantity is ((1 / limit) * index value of D) / closing price,
\* the limit being 100 in the program.
C14_QuantityOfFullWeight ==
    run.rebalanced => QuantitiesAt(TopLimit)

\* C14 amended: the weight is 1 / n for the n tickers of the new top 100,
\* which is 1 / limit only when the top 100 is full.
C14_QuantityOfEqualWeight ==
    run.rebalanced => QuantitiesAt(Cardinality(NewTop))

\* a rebalance into fewer tickers than the limit, on a store that holds an
\* earlier index value
C14_Witness ==
    /\ run.rebalanced
    /\ Cardinality(NewTop) < TopLimit
    /\ \E d \in Dates : d # run.date /\ ValueAt(d) # {}

\* the quarterly_shares rows of a ticker with report_date <= date
ObservationsUpTo(t, date) == {r \in quarterly_shares : r[1] = t /\ r[2] <= date}

\* C15: after a trading-day run for D every universe ticker with a closing
\* price on D and a shares observation with report_date <= D has the
\* market_caps row (D, ticker, shares, price, price * shares), shares being
\* the observation with the greatest report_date <= D.
C15_MarketCapRows ==
    Traded =>
        \A t \in Range(provider[run.date].universe) \cap DOMAIN provider[run.date].close :
            \A o \in ObservationsUpTo(t, run.date) :
                (\A q \in ObservationsUpTo(t, run.date) : q[2] <= o[2])
                    => {r \in RowsOf(market_caps, run.date) : r[2] = t}
                         = {<<run.date, t, o[3], FromInt(provider[run.date].close[t]),
                              FMul(FromInt(provider[run.date].close[t]), o[3])>>}

\* a run that stored more rows than the limit and passed over an observation
\* reported after its date for an older one
C15_Witness ==
    /\ Traded
    /\ Cardinality(RowsOf(market_caps, run.date)) > TopLimit
    /\ \E t \in TickersOf(RowsOf(market_caps, run.date)) :
          /\ \E r \in quarterly_shares : r[1] = t /\ r[2] > run.date
          /\ Cardinality(ObservationsUpTo(t, run.date)) >= 1
    /\ \E t \in TickersOf(RowsOf(market_caps, run.date)) :
          Cardinality(ObservationsUpTo(t, run.date)) >= 2

\* the rows of a date-keyed table keyed by another date than date
RowsNotOf(table, date) == {r \in table : r[1] # date}

\* C20: an invocation for D leaves every market_caps, index_composition and
\* index_performance row keyed by another date as it is.
C20_OtherDatesUntouched ==
    [][/\ RowsNotOf(market_caps', run'.date) = RowsNotOf(market_caps, run'.date)
       /\ RowsNotOf(index_composition', run'.date) = RowsNotOf(index_composition, run'.date)
       /\ RowsNotOf(index_performance', run'.date) = RowsNotOf(index_performance, run'.date)]_vars

\* a run that rebalanced on a store holding a snapshot and an index value of
\* an earlier date and of a later date
C20_Witness ==
    /\ run.rebalanced
    /\ \E d \in Dates :
          d < run.date /\ ValueAt(d) # {} /\ RowsOf(index_composition, d) # {}
    /\ \E d \in Dates :
          d > run.date /\ ValueAt(d) # {} /\ RowsOf(index_composition, d) # {}

\* the retry discipline of a download dl: every requested chunk was attempted
\* between 1 and MaxAttempts times, every attempt before its last was
\* signalled, its last attempt was unsignalled unless it was attempt
\* MaxAttempts, and the download raised exactly when the last requested
\* chunk had all its MaxAttempts attempts signalled
RetryDiscipline(dl) ==
    /\ \A i \in 1..Len(dl.attempts) :
          /\ dl.attempts[i] \in 1..MaxAttempts
          /\ \A k \in 1..(dl.attempts[i] - 1) : dl.signals[i][k]
          /\ ~dl.signals[i][dl.attempts[i]] \/ dl.attempts[i] = MaxAttempts
          /\ dl.signals[i][dl.attempts[i]] => (dl.raised /\ i = Len(dl.attempts))
    /\ dl.raised => Len(dl.attempts) >= 1 /\ dl.signals[Len(dl.attempts)][MaxAttempts]

\* C16: each chunk request is attempted at most MaxAttempts times, again only
\* after a signalled attempt, and returns at the first unsignalled attempt;
\* when all MaxAttempts attempts of a chunk are signalled the invocation ends
\* with the error and stores no index value.
C16_BoundedRetry ==
    [][runs' # runs =>
          /\ RetryDiscipline(download')
          /\ download'.raised =>
                /\ run'.outcome = "RetryError"
                /\ RowsOf(index_performance', run'.date) = RowsOf(index_performance, run'.date)
          /\ (~download'.raised /\ run'.outcome # "holiday") =>
                /\ run'.outcome # "RetryError"
                /\ Len(download'.attempts)
                     = Len(sub_tickers_list(provider'[run'.date].universe))]_vars

\* a download whose first chunk returned after a signalled attempt and whose
\* second chunk exhausted its attempts
C16_Witness ==
    /\ download.raised
    /\ Len(download.attempts) = 2
    /\ download.attempts[1] > 1
    /\ run.outcome = "RetryError"

\* C19: an invocation whose price download exhausts its retries leaves
\* market_caps, index_composition and index_performance unchanged.
C19_AbortWritesNoResult ==
    [][(runs' # runs /\ download'.raised)
         => UNCHANGED <<market_caps, index_composition, index_performance>>]_vars

\* an aborted invocation with the fundamentals refresh for a date that was
\* computed before
C19_Witness ==
    /\ download.raised
    /\ run.refresh
    /\ quarterly_shares # {}
    /\ ValueAt(run.date) # {}

\* the rows the fundamentals provider gave for the tasks answered with a sheet
SheetRows(tickers, answers) ==
    UNION {Range(fetch_quarterly_shares(tickers[i])) :
              i \in {j \in DOMAIN answers : answers[j] = "sheet"}}

\* C17: a refresh in which the provider lacks the field for a ticker or the
\* fetch of a ticker fails still upserts the observations of the other
\* tickers and the invocation goes on to the price fetch.
\* (As claimed; a failing fetch raises out of the refresh and the invocation.)
C17_FailureSkipped ==
    (/\ pool.phase \in {"done", "failed"}
     /\ \E i \in DOMAIN pool.answers : pool.answers[i] \in {"nofield", "error"})
        => /\ run.outcome # "FetchError"
           /\ "yf_downloader" \in Range(run.calls)
           /\ SheetRows(pool.tickers, pool.answers) \subseteq quarterly_shares

\* a table after the upsert of rows whose keys are distinct, whatever their order
Upserted(table, rows) ==
    {r \in table : \A n \in rows : <<r[1], r[2]>> # <<n[1], n[2]>>} \cup rows

\* C18: at most Concurrency tasks are in a worker at a time; the store is
\* written at most once per refresh, in the step that follows the return of
\* all tasks; and the table after it is the upsert of the provider's rows,
\* whatever the order in which the tasks completed.
C18_RefreshDeterministic ==
    [][/\ Cardinality(pool'.running) <= Concurrency
       /\ pool'.writes <= 1
       /\ quarterly_shares' # quarterly_shares
            => /\ pool.phase = "fetching" /\ pool.waiting = {} /\ pool.running = {}
               /\ pool'.phase = "done" /\ pool'.writes = 1
       /\ (pool.phase = "fetching" /\ pool'.phase = "done")
            => quarterly_shares'
                 = Upserted(quarterly_shares, SheetRows(pool.tickers, pool.answers))]_vars

\* a finished refresh whose tasks completed in another order than submitted,
\* with all workers busy at some point, written over rows of an earlier refresh
C18_Witness ==
    /\ pool.phase = "done"
    /\ pool.writes = 1
    /\ Len(pool.order) = NumTickers
    /\ pool.order[1] # 1
    /\ runs = 2
====
